---- MODULE Spec2Model ----
(***************************************************************************)
(* Model of the backtesting core of jxdai2007/trading-system:              *)
(*   src/src/backtesting/simple_backtester.py  (SimpleBacktester, __main__)*)
(*   src/src/backtesting/strategies.py         (the three strategies)      *)
(*                                                                         *)
(* Prices and cash are exact integers (money in its smallest unit); the    *)
(* quotients the code computes in floating point (percentages, returns)    *)
(* are exact fractions <<numerator, denominator>> in lowest terms.         *)
(* Rounding of IEEE-754 doubles is not represented.                        *)
(* A bar's 'Date' is its 0-based position in the data frame, so dates are  *)
(* distinct and ascending.                                                 *)
(***************************************************************************)
EXTENDS Integers, Sequences, FiniteSets, TLC

(* ------------------------------ bounds -------------------------------- *)
MaxBars  == 3      \* longest enumerated bar sequence
MaxPrice == 2      \* closes are drawn from 1..MaxPrice
MaxCap   == 3      \* initial_capital is drawn from 1..MaxCap
MaxWarm  == 2      \* warmup_period is drawn from 0..MaxWarm
NumRuns  == 2      \* iterations of the __main__ loop on the same inputs
MaxSigBars  == 4   \* longest bar sequence handed to a strategy alone
MaxSigPrice == 3   \* closes of those sequences are drawn from 1..MaxSigPrice
MaxWindow   == 3   \* windows and periods are drawn from 1..MaxWindow

(* Signal column values written by the strategies *)
BUY_SIGNAL  == 1
SELL_SIGNAL == 0 - 1
HOLD_SIGNAL == 0
SignalValues == {BUY_SIGNAL, SELL_SIGNAL, HOLD_SIGNAL}

(* The worked scenario of the specification (section 8) *)
Scenario ==
  [closes |-> <<100, 102, 101, 105, 103>>, capital |-> 1000, warmup |-> 0]

(* A position held while the price doubles every day: equal non-zero returns *)
SteadyGrowth ==
  [closes |-> <<1, 2, 4>>, capital |-> 1, warmup |-> 0,
   given |-> <<BUY_SIGNAL, HOLD_SIGNAL, HOLD_SIGNAL>>]

VARIABLES
  closes,           \* data['Close'], one entry per bar (load_data result)
  strategy,         \* "Momentum", "MACrossover", "RSI", or "Given" for a
                    \* caller-supplied Signal column
  params,           \* the strategy object's constructor arguments
  given,            \* the caller-supplied Signal column when strategy = "Given"
  initial_capital,  \* constructor argument
  warmup_period,    \* execute_backtest argument
  run,              \* iteration of the __main__ loop, 1..NumRuns
  pc,               \* position inside the iteration
  signals,          \* data_with_signals['Signal']
  i,                \* 0-based position of the next row of the trading loop
  cash,             \* self.cash
  shares,           \* self.shares
  trades,           \* self.trades
  history,          \* <<self.cash, self.shares>> after each traded day
  results           \* per finished iteration: the trade log and the metrics

vars == <<closes, strategy, params, given, initial_capital, warmup_period,
          run, pc, signals, i, cash, shares, trades, history, results>>

inputs == <<closes, strategy, params, given, initial_capital, warmup_period>>

(* --------------------------- exact fractions --------------------------- *)
Abs(x) == IF x < 0 THEN 0 - x ELSE x

RECURSIVE GCD(_, _)
GCD(a, b) == IF b = 0 THEN a ELSE GCD(b, a % b)

\* n / d in lowest terms with a positive denominator (d # 0)
Frac(n, d) ==
  LET g == GCD(Abs(n), Abs(d))
      s == IF d < 0 THEN 0 - 1 ELSE 1
  IN  <<(s * n) \div g, (s * d) \div g>>

Zero == <<0, 1>>
RInt(n) == <<n, 1>>
RAdd(x, y) == Frac(x[1] * y[2] + y[1] * x[2], x[2] * y[2])
RSub(x, y) == Frac(x[1] * y[2] - y[1] * x[2], x[2] * y[2])
RMul(x, y) == Frac(x[1] * y[1], x[2] * y[2])
RDiv(x, y) == Frac(x[1] * y[2], x[2] * y[1])
RLess(x, y) == x[1] * y[2] < y[1] * x[2]
RPos(x) == x[1] > 0
RNeg(x) == x[1] < 0

RECURSIVE RSum(_)
RSum(s) == IF s = <<>> THEN Zero ELSE RAdd(Head(s), RSum(Tail(s)))

RMean(s) == RDiv(RSum(s), RInt(Len(s)))

RECURSIVE RMin(_)
RMin(s) ==
  IF Len(s) = 1 THEN s[1]
  ELSE LET m == RMin(Tail(s)) IN IF RLess(m, s[1]) THEN m ELSE s[1]

(* ------------------------------ strategies ----------------------------- *)
\* df['Close'].pct_change(): undefined (NaN) on the first row
PctChange_FromFirst(c, k) == Frac(c[k] - c[1], c[1])

PctChange(c, k) == Frac(c[k] - c[k - 1], c[k - 1])

MomentumSignalAt_Reversed(c, k) ==
  IF k = 1 THEN HOLD_SIGNAL
  ELSE IF RNeg(PctChange(c, k)) THEN BUY_SIGNAL
  ELSE IF RPos(PctChange(c, k)) THEN SELL_SIGNAL
  ELSE HOLD_SIGNAL

\* MomentumStrategy.generate_signals, row k (1-based)
MomentumSignalAt(c, k) ==
  IF k = 1 THEN HOLD_SIGNAL
  ELSE IF RNeg(PctChange(c, k)) THEN SELL_SIGNAL
  ELSE IF RPos(PctChange(c, k)) THEN BUY_SIGNAL
  ELSE HOLD_SIGNAL

MomentumSignals(c) == [k \in 1..Len(c) |-> MomentumSignalAt(c, k)]

\* Floating-point results that are not numbers: 0/0 and x/0 for x > 0
NaN == <<0, 0>>
Inf == <<1, 0>>

\* x < y on floats: FALSE as soon as one side is NaN
FLess(x, y) == x # NaN /\ y # NaN /\ RLess(x, y)

RollingMean_MinPeriodsOne(s, window, k) ==
  LET n == IF k < window THEN k ELSE window
  IN  RMean([j \in 1..n |-> s[k - n + j]])

\* series.rolling(window=window).mean() at row k (1-based): NaN until the
\* window holds `window` rows; s is a sequence of fractions
RollingMean(s, window, k) ==
  IF k < window THEN NaN
  ELSE RMean([j \in 1..window |-> s[k - window + j]])

ClosesAsFractions(c) == [k \in 1..Len(c) |-> RInt(c[k])]

\* MovingAverageCrossover.generate_signals, row k (1-based)
MASignalAt(c, short_window, long_window, k) ==
  LET Short_MA == RollingMean(ClosesAsFractions(c), short_window, k)
      Long_MA  == RollingMean(ClosesAsFractions(c), long_window, k)
  IN  IF FLess(Short_MA, Long_MA) THEN SELL_SIGNAL
      ELSE IF FLess(Long_MA, Short_MA) THEN BUY_SIGNAL
      ELSE HOLD_SIGNAL

MASignals_DropNaN(c, short_window, long_window) ==
  LET skip == (IF short_window > long_window THEN short_window
               ELSE long_window) - 1
  IN  [k \in 1..(Len(c) - skip) |->
         MASignalAt(c, short_window, long_window, k + skip)]

MASignals(c, short_window, long_window) ==
  [k \in 1..Len(c) |-> MASignalAt(c, short_window, long_window, k)]

\* delta = df['Close'].diff(): NaN on the first row
\* gain = delta.where(delta > 0, 0): the NaN of the first row fails the
\* condition and becomes 0
Gain(c) ==
  [k \in 1..Len(c) |->
     IF k > 1 /\ c[k] - c[k - 1] > 0 THEN RInt(c[k] - c[k - 1]) ELSE Zero]

\* loss = -delta.where(delta < 0, 0)
Loss(c) ==
  [k \in 1..Len(c) |->
     IF k > 1 /\ c[k] - c[k - 1] < 0 THEN RInt(c[k - 1] - c[k]) ELSE Zero]

RelativeStrength_ZeroFilled(avg_gain, avg_loss) ==
  IF avg_gain = NaN \/ avg_loss = NaN THEN NaN
  ELSE IF avg_loss = Zero THEN Zero
  ELSE RDiv(avg_gain, avg_loss)

\* rs = avg_gain / avg_loss on floats (both sides are >= 0 or NaN)
RelativeStrength(avg_gain, avg_loss) ==
  IF avg_gain = NaN \/ avg_loss = NaN THEN NaN
  ELSE IF avg_loss = Zero THEN (IF avg_gain = Zero THEN NaN ELSE Inf)
  ELSE RDiv(avg_gain, avg_loss)

\* 100 - (100 / (1 + rs))
RSIOf(rs) ==
  IF rs = NaN THEN NaN
  ELSE IF rs = Inf THEN RInt(100)
  ELSE RSub(RInt(100), RDiv(RInt(100), RAdd(RInt(1), rs)))

\* df['RSI'] at row k (1-based)
RSIAt(c, period, k) ==
  RSIOf(RelativeStrength(RollingMean(Gain(c), period, k),
                         RollingMean(Loss(c), period, k)))

\* RSIStrategy.generate_signals, row k (1-based)
RSISignalAt(c, period, oversold, overbought, k) ==
  LET RSI == RSIAt(c, period, k)
  IN  IF FLess(RInt(overbought), RSI) THEN SELL_SIGNAL
      ELSE IF FLess(RSI, RInt(oversold)) THEN BUY_SIGNAL
      ELSE HOLD_SIGNAL

RSISignals(c, period, oversold, overbought) ==
  [k \in 1..Len(c) |-> RSISignalAt(c, period, oversold, overbought, k)]

\* strategy.generate_signals(data) for the strategy object at hand
GenerateSignals(strat, par, c, preset) ==
  IF strat = "Momentum" THEN MomentumSignals(c)
  ELSE IF strat = "MACrossover"
  THEN MASignals(c, par.short_window, par.long_window)
  ELSE IF strat = "RSI"
  THEN RSISignals(c, par.period, par.oversold, par.overbought)
  ELSE preset

(* ------------------------- execute_backtest ---------------------------- *)
FirstTradedRow_NoSkip(w) == 0

\* data_with_signals.iloc[warmup_period:] starts at row warmup_period
FirstTradedRow(w) == w

SharesToBuy_RoundUp(c, price) == (c + price - 1) \div price

\* int(self.cash / price)
SharesToBuy(c, price) == c \div price

BuyBranch(signal, c) == signal = BUY_SIGNAL /\ c > 0

SellBranch_NoPositionCheck(signal, s) == signal = SELL_SIGNAL

SellBranch(signal, s) == signal = SELL_SIGNAL /\ s > 0

BuyExecutes_AlwaysLogs(n) == TRUE

\* if shares_to_buy > 0
BuyExecutes(n) == n > 0

BuyTrade_NewSharesOnly(date, price, n, cashAfter, sharesAfter) ==
  [Date |-> date, Action |-> "BUY", Price |-> price, Shares |-> n,
   Cash |-> cashAfter, PortfolioValue |-> cashAfter + n * price]

BuyTrade(date, price, n, cashAfter, sharesAfter) ==
  [Date |-> date, Action |-> "BUY", Price |-> price, Shares |-> n,
   Cash |-> cashAfter, PortfolioValue |-> cashAfter + sharesAfter * price]

SellTrade_SharesAfter(date, price, sharesSold, cashAfter) ==
  [Date |-> date, Action |-> "SELL", Price |-> price, Shares |-> 0,
   Cash |-> cashAfter, PortfolioValue |-> cashAfter]

SellTrade_ValueBeforeZeroing(date, price, sharesSold, cashAfter) ==
  [Date |-> date, Action |-> "SELL", Price |-> price, Shares |-> sharesSold,
   Cash |-> cashAfter, PortfolioValue |-> cashAfter + sharesSold * price]

SellTrade(date, price, sharesSold, cashAfter) ==
  [Date |-> date, Action |-> "SELL", Price |-> price, Shares |-> sharesSold,
   Cash |-> cashAfter, PortfolioValue |-> cashAfter]

LogTrade_Prepend(log, t) == <<t>> \o log

\* self.trades.append(...)
LogTrade(log, t) == Append(log, t)

(* ---------------------- calculate_performance -------------------------- *)
\* final_value = self.cash + (self.shares * final_price)
FinalValue(c, s, final_price) == c + s * final_price

ProfitLoss_NoBaseline(fv, ic) == fv

\* profit_loss = final_value - self.initial_capital
ProfitLoss(fv, ic) == fv - ic

TotalReturn_Ratio(fv, ic) == RMul(Frac(fv, ic), RInt(100))

\* ((final_value - self.initial_capital) / self.initial_capital) * 100
TotalReturn(fv, ic) == RMul(Frac(fv - ic, ic), RInt(100))

\* trades_by_date[date], in log order
TradesOn(log, date) == SelectSeq(log, LAMBDA t : t.Date = date)

RECURSIVE ReplayTrades_LastBuyOnly(_, _)
ReplayTrades_LastBuyOnly(ts, st) ==
  IF ts = <<>> THEN st
  ELSE LET t == Head(ts)
           nx == IF t.Action = "BUY" THEN <<t.Cash, t.Shares>>
                 ELSE IF t.Action = "SELL" THEN <<t.Cash, 0>>
                 ELSE st
       IN  ReplayTrades_LastBuyOnly(Tail(ts), nx)

\* the shadow <<cash, shares>> after the trades of one day
RECURSIVE ReplayTrades(_, _)
ReplayTrades(ts, st) ==
  IF ts = <<>> THEN st
  ELSE LET t == Head(ts)
           nx == IF t.Action = "BUY" THEN <<t.Cash, st[2] + t.Shares>>
                 ELSE IF t.Action = "SELL" THEN <<t.Cash, 0>>
                 ELSE st
       IN  ReplayTrades(Tail(ts), nx)

RECURSIVE PortfolioValuesFrom(_, _, _, _)
PortfolioValuesFrom(k, st, log, c) ==
  IF k > Len(c) THEN <<>>
  ELSE LET nx == ReplayTrades(TradesOn(log, k - 1), st)
       IN  <<nx[1] + nx[2] * c[k]>> \o PortfolioValuesFrom(k + 1, nx, log, c)

\* portfolio_values, one entry per row of data_with_signals
PortfolioValues(log, c, ic) == PortfolioValuesFrom(1, <<ic, 0>>, log, c)

\* portfolio_series.pct_change().dropna()
DailyReturns(pv) ==
  [k \in 1..(Len(pv) - 1) |-> Frac(pv[k + 1] - pv[k], pv[k])]

StdPositive_Unchecked(dr) == TRUE

\* daily_returns.std() > 0: the sample deviation (ddof = 1) is NaN for one
\* return and 0 when all returns are equal
StdPositive(dr) == \E j, k \in DOMAIN dr : dr[j] # dr[k]

\* The Sharpe ratio mean / std * sqrt(252) is irrational in general; it is
\* kept as the exact mean together with the return series whose sample
\* deviation divides it.  The ratio is 0 exactly when the mean field is Zero.
SharpeZero == [mean |-> Zero, std_of |-> <<>>]

SharpeRatio(dr) ==
  IF Len(dr) > 0 /\ StdPositive(dr)
  THEN [mean |-> RMean(dr), std_of |-> dr]
  ELSE SharpeZero

RunningMax_Global(pv, k) ==
  CHOOSE m \in {pv[j] : j \in DOMAIN pv} : \A j \in DOMAIN pv : pv[j] <= m

\* portfolio_series.expanding().max()
RECURSIVE RunningMax(_, _)
RunningMax(pv, k) ==
  IF k = 1 THEN pv[1]
  ELSE LET m == RunningMax(pv, k - 1) IN IF pv[k] > m THEN pv[k] ELSE m

Drawdown(pv) ==
  [k \in 1..Len(pv) |->
     Frac(pv[k] - RunningMax(pv, k), RunningMax(pv, k))]

\* drawdown.min() * 100
MaxDrawdown(pv) == RMul(RMin(Drawdown(pv)), RInt(100))

\* ((sell_price - avg_buy_price) / avg_buy_price) * 100
TradeReturn(sell_price, total_cost, total_shares) ==
  LET avg_buy_price == Frac(total_cost, total_shares)
  IN  RMul(RDiv(RSub(RInt(sell_price), avg_buy_price), avg_buy_price),
           RInt(100))

\* trade_returns: one entry per Sell that closes accumulated Buys
RECURSIVE TradeReturns(_, _, _)
TradeReturns(ts, total_shares, total_cost) ==
  IF ts = <<>> THEN <<>>
  ELSE LET t == Head(ts) IN
       IF t.Action = "BUY"
       THEN TradeReturns(Tail(ts), total_shares + t.Shares,
                         total_cost + t.Shares * t.Price)
       ELSE IF t.Action = "SELL" /\ total_shares > 0
       THEN <<TradeReturn(t.Price, total_cost, total_shares)>>
              \o TradeReturns(Tail(ts), 0, 0)
       ELSE TradeReturns(Tail(ts), total_shares, total_cost)

\* total_shares and total_cost when the loop over self.trades has ended
RECURSIVE OpenPosition(_, _, _)
OpenPosition(ts, total_shares, total_cost) ==
  IF ts = <<>>
  THEN [total_shares |-> total_shares, total_cost |-> total_cost]
  ELSE LET t == Head(ts) IN
       IF t.Action = "BUY"
       THEN OpenPosition(Tail(ts), total_shares + t.Shares,
                         total_cost + t.Shares * t.Price)
       ELSE IF t.Action = "SELL" /\ total_shares > 0
       THEN OpenPosition(Tail(ts), 0, 0)
       ELSE OpenPosition(Tail(ts), total_shares, total_cost)

WinningTrades_BreakEvenWins(rs) == Cardinality({k \in DOMAIN rs : ~RNeg(rs[k])})

WinningTrades(rs) == Cardinality({k \in DOMAIN rs : RPos(rs[k])})
LosingTrades(rs) == Cardinality({k \in DOMAIN rs : ~RPos(rs[k])})

WinRate(winning, losing) ==
  IF winning + losing > 0 THEN RMul(Frac(winning, winning + losing), RInt(100))
  ELSE Zero

AvgTradeReturn(rs) == IF rs # <<>> THEN RMean(rs) ELSE Zero

\* the dictionary returned by calculate_performance
Performance(c, s, log, ic, final_price, cl) ==
  LET final_value == FinalValue(c, s, final_price)
      pv == PortfolioValues(log, cl, ic)
      rs == TradeReturns(log, 0, 0)
      nonempty == Len(log) > 0
  IN  [initial_capital  |-> ic,
       final_value      |-> final_value,
       profit_loss      |-> ProfitLoss(final_value, ic),
       total_return     |-> TotalReturn(final_value, ic),
       num_trades       |-> Len(log),
       portfolio_values |-> IF nonempty THEN pv ELSE <<>>,
       sharpe_ratio     |-> IF nonempty THEN SharpeRatio(DailyReturns(pv))
                            ELSE SharpeZero,
       max_drawdown     |-> IF nonempty THEN MaxDrawdown(pv) ELSE Zero,
       win_rate         |-> IF nonempty
                            THEN WinRate(WinningTrades(rs), LosingTrades(rs))
                            ELSE Zero,
       avg_trade_return |-> IF nonempty THEN AvgTradeReturn(rs) ELSE Zero]

(* ------------------------------- state --------------------------------- *)
BarSeqs == UNION {[1..n -> 1..MaxPrice] : n \in 1..MaxBars}

\* constructor arguments of the strategy objects
NoParams ==
  [short_window |-> 0, long_window |-> 0,
   period |-> 0, oversold |-> 0, overbought |-> 0]
MAParams(short_window, long_window) ==
  [NoParams EXCEPT !.short_window = short_window, !.long_window = long_window]
RSIParams(period, oversold, overbought) ==
  [NoParams EXCEPT !.period = period, !.oversold = oversold,
                   !.overbought = overbought]

\* the three strategy objects built by __main__, windows scaled to the bars
MainStrategies ==
  {<<"Momentum", NoParams>>,
   <<"MACrossover", MAParams(1, 2)>>,
   <<"RSI", RSIParams(2, 30, 70)>>}

\* a freshly constructed engine, before apply_strategy
FreshEngine ==
  /\ run = 1
  /\ pc = "apply"
  /\ signals = <<>>
  /\ i = 0
  /\ cash = initial_capital
  /\ shares = 0
  /\ trades = <<>>
  /\ history = <<>>
  /\ results = <<>>

Init ==
  /\ \/ /\ closes \in BarSeqs
        /\ initial_capital \in 1..MaxCap
        /\ warmup_period \in 0..MaxWarm
        /\ \/ /\ \E sp \in MainStrategies : strategy = sp[1] /\ params = sp[2]
              /\ given = <<>>
           \/ /\ strategy = "Given" /\ params = NoParams
              /\ given \in [1..Len(closes) -> SignalValues]
     \/ /\ closes = Scenario.closes
        /\ initial_capital = Scenario.capital
        /\ warmup_period = Scenario.warmup
        /\ strategy = "Momentum" /\ params = NoParams /\ given = <<>>
     \/ /\ closes = SteadyGrowth.closes
        /\ initial_capital = SteadyGrowth.capital
        /\ warmup_period = SteadyGrowth.warmup
        /\ strategy = "Given" /\ params = NoParams
        /\ given = SteadyGrowth.given
  /\ FreshEngine

NewBacktester_Reused ==
  /\ pc = "new"
  /\ pc' = "apply"
  /\ UNCHANGED <<inputs, run, signals, i, cash, shares, trades, history,
                 results>>

\* backtester = SimpleBacktester(initial_capital=...): a fresh engine for
\* the next iteration of the __main__ loop
NewBacktester ==
  /\ pc = "new"
  /\ cash' = initial_capital
  /\ shares' = 0
  /\ trades' = <<>>
  /\ history' = <<>>
  /\ pc' = "apply"
  /\ UNCHANGED <<inputs, run, signals, i, results>>

\* data_with_signals = backtester.apply_strategy(data, strategy)
ApplyStrategy ==
  /\ pc = "apply"
  /\ signals' = GenerateSignals(strategy, params, closes, given)
  /\ pc' = "start"
  /\ UNCHANGED <<inputs, run, i, cash, shares, trades, history, results>>

\* execute_backtest: the slice data_with_signals.iloc[warmup_period:]
StartBacktest ==
  /\ pc = "start"
  /\ i' = FirstTradedRow(warmup_period)
  /\ pc' = IF FirstTradedRow(warmup_period) < Len(closes) THEN "exec" ELSE "perf"
  /\ UNCHANGED <<inputs, run, signals, cash, shares, trades, history, results>>

\* execute_backtest: one iteration of the loop over the traded rows
ExecuteDay ==
  /\ pc = "exec"
  /\ LET date   == i
         price  == closes[i + 1]
         signal == signals[i + 1]
         shares_to_buy == SharesToBuy(cash, price)
     IN  IF BuyBranch(signal, cash)
         THEN IF BuyExecutes(shares_to_buy)
              THEN /\ cash' = cash - shares_to_buy * price
                   /\ shares' = shares + shares_to_buy
                   /\ trades' = LogTrade(trades,
                                  BuyTrade(date, price, shares_to_buy,
                                           cash', shares'))
              ELSE UNCHANGED <<cash, shares, trades>>
         ELSE IF SellBranch(signal, shares)
         THEN /\ cash' = cash + shares * price
              /\ trades' = LogTrade(trades,
                             SellTrade(date, price, shares, cash'))
              /\ shares' = 0
         ELSE UNCHANGED <<cash, shares, trades>>
  /\ history' = Append(history, <<cash', shares'>>)
  /\ i' = i + 1
  /\ pc' = IF i + 1 < Len(closes) THEN "exec" ELSE "perf"
  /\ UNCHANGED <<inputs, run, signals, results>>

\* final_price = data_with_signals.iloc[-1]['Close'];
\* results[...] = backtester.calculate_performance(final_price, data_with_signals)
CalculatePerformance ==
  /\ pc = "perf"
  /\ results' = Append(results,
       [trades  |-> trades,
        metrics |-> Performance(cash, shares, trades, initial_capital,
                                closes[Len(closes)], closes)])
  /\ run' = IF run < NumRuns THEN run + 1 ELSE run
  /\ pc' = IF run < NumRuns THEN "new" ELSE "done"
  /\ UNCHANGED <<inputs, signals, i, cash, shares, trades, history>>

Next ==
  \/ NewBacktester
  \/ ApplyStrategy
  \/ StartBacktest
  \/ ExecuteDay
  \/ CalculatePerformance

Spec == Init /\ [][Next]_vars

(* A strategy applied on its own to any bar sequence, the empty one included *)
SigBarSeqs == UNION {[1..n -> 1..MaxSigPrice] : n \in 0..MaxSigBars}

Thresholds == {0, 30, 50, 70, 100}

SigStrategies ==
  {<<"Momentum", NoParams>>}
  \cup {<<"MACrossover", MAParams(sw, lw)>> : sw \in 1..MaxWindow, lw \in 1..MaxWindow}
  \cup {<<"RSI", RSIParams(p, th[1], th[2])>> :
          p \in 1..MaxWindow,
          th \in {t \in Thresholds \X Thresholds : t[1] < t[2]}}

InitSig ==
  /\ closes \in SigBarSeqs
  /\ \E sp \in SigStrategies : strategy = sp[1] /\ params = sp[2]
  /\ given = <<>>
  /\ initial_capital = 10000
  /\ warmup_period = 0
  /\ FreshEngine

NextSig == ApplyStrategy

SpecSig == InitSig /\ [][NextSig]_vars

(* ------------------------------ properties ----------------------------- *)
IsPrefix(s, t) == Len(s) <= Len(t) /\ SubSeq(t, 1, Len(s)) = s
LastTrade == trades[Len(trades)]

C3_SellStep ==
  [][ (/\ pc = "exec"
       /\ signals[i + 1] = SELL_SIGNAL
       /\ shares > 0)
      => LET price == closes[i + 1]
         IN  /\ cash' = cash + shares * price
             /\ shares' = 0
             /\ Len(trades') = Len(trades) + 1
             /\ IsPrefix(trades, trades')
             /\ LET t == trades'[Len(trades')]
                IN  /\ t.Action = "SELL"
                    /\ t.Price = price
                    /\ t.Shares = shares
                    /\ t.Cash = cash'
                    /\ t.PortfolioValue = cash' ]_vars

\* a position of several shares has been sold in one trade
C3_Witness ==
  /\ trades # <<>>
  /\ LastTrade.Action = "SELL"
  /\ LastTrade.Shares >= 2
  /\ shares = 0

\* C4: a day whose signal is Hold, or Buy with cash = 0, or Buy with
\* floor(cash/price) = 0, or Sell with shares = 0, leaves cash, shares and
\* the trade log unchanged.
C4_NoOpDays ==
  [][ (/\ pc = "exec"
       /\ LET signal == signals[i + 1]
              price == closes[i + 1]
          IN  \/ signal = HOLD_SIGNAL
              \/ signal = BUY_SIGNAL /\ cash = 0
              \/ signal = BUY_SIGNAL /\ cash \div price = 0
              \/ signal = SELL_SIGNAL /\ shares = 0)
      => UNCHANGED <<cash, shares, trades>> ]_vars

\* the last processed day carried a Buy the cash could not afford, and a
\* Sell arrived earlier with nothing to sell
C4_Witness ==
  /\ pc \in {"exec", "perf"}
  /\ i >= warmup_period + 2
  /\ signals[i - 1] = SELL_SIGNAL
  /\ signals[i] = BUY_SIGNAL
  /\ cash > 0
  /\ cash < closes[i]
  /\ trades = <<>>

\* C5 (as stated): the trade log strictly alternates Buy, Sell, Buy, Sell,
\* ... starting with a Buy, every Buy being executed from a flat position.
C5_StrictAlternation ==
  \A k \in 1..Len(trades) :
    trades[k].Action = IF k % 2 = 1 THEN "BUY" ELSE "SELL"

\* C5 (amended): the log starts with a Buy, a Sell is never followed by
\* another Sell, every Sell sells the shares of all the Buys since the
\* previous Sell, and the position is flat exactly when the log is empty or
\* ends with a Sell; consecutive Buys add to the one open position.
C5_AllOutOnSell ==
  /\ trades # <<>> => trades[1].Action = "BUY"
  /\ \A k \in 1..(Len(trades) - 1) :
       trades[k].Action = "SELL" => trades[k + 1].Action = "BUY"
  /\ shares = 0 <=> (trades = <<>> \/ LastTrade.Action = "SELL")
  /\ \A k \in 1..Len(trades) :
       trades[k].Action = "SELL" => trades[k].Shares > 0

\* two Buys in a row were closed by one Sell
C5_Witness ==
  /\ Len(trades) = 3
  /\ trades[1].Action = "BUY"
  /\ trades[2].Action = "BUY"
  /\ trades[3].Action = "SELL"
  /\ trades[3].Shares = trades[1].Shares + trades[2].Shares
  /\ shares = 0

\* C6: no trade is executed on any of the first warmup_period bars (every
\* logged trade is dated on a bar with index >= warmup_period), and cash and
\* shares stay at (initial_capital, 0) until the first traded bar.
C6_WarmupSkipped ==
  /\ \A k \in 1..Len(trades) : trades[k].Date >= warmup_period
  /\ (pc \in {"apply", "start"} \/ (pc = "exec" /\ i <= warmup_period))
       => (cash = initial_capital /\ shares = 0 /\ trades = <<>>)

\* an affordable Buy signal sat on warm-up bar 0 and the run traded later
C6_Witness ==
  /\ warmup_period >= 1
  /\ pc = "perf"
  /\ signals[1] = BUY_SIGNAL
  /\ closes[1] <= initial_capital
  /\ trades # <<>>

\* C7: a run that executes no trade (in particular one whose bar sequence
\* is shorter than warmup_period) has an empty log and metrics num_trades =
\* 0, profit_loss = 0, total_return = 0, sharpe_ratio = 0, max_drawdown = 0,
\* win_rate = 0, avg_trade_return = 0.
C7_NoTradeMetrics ==
  \A r \in DOMAIN results :
    /\ Len(closes) < warmup_period => results[r].trades = <<>>
    /\ results[r].trades = <<>> =>
         LET m == results[r].metrics
         IN  /\ m.num_trades = 0
             /\ m.profit_loss = 0
             /\ m.total_return = Zero
             /\ m.sharpe_ratio = SharpeZero
             /\ m.max_drawdown = Zero
             /\ m.win_rate = Zero
             /\ m.avg_trade_return = Zero

\* metrics were computed for bars shorter than the warm-up, Buy signal on
\* the only bar
C7_Witness ==
  /\ results # <<>>
  /\ Len(closes) < warmup_period
  /\ signals[1] = BUY_SIGNAL
  /\ closes[1] <= initial_capital

\* C8: across every step of execute_backtest and across
\* calculate_performance the earlier log is a prefix of the later log, and
\* calculate_performance leaves cash, shares and the log unchanged.
C8_AppendOnly ==
  [][ /\ pc \in {"start", "exec", "perf"} => IsPrefix(trades, trades')
      /\ pc = "perf" => UNCHANGED <<cash, shares, trades>> ]_vars

\* metrics have been computed over a log of three trades of this run
C8_Witness ==
  /\ pc = "done"
  /\ Len(trades) >= 3

InScenario ==
  /\ closes = Scenario.closes
  /\ initial_capital = Scenario.capital
  /\ warmup_period = Scenario.warmup
  /\ strategy = "Momentum"

\* C10: closes [100,102,101,105,103], Momentum, initial_capital 1000 and
\* warmup_period 0 give the signals Hold, Buy, Sell, Buy, Sell; exactly four
\* trades Buy, Sell, Buy, Sell are executed; the day-2 Buy is of 9 shares
\* leaving cash 82; the run ends with shares = 0.
C10_WorkedScenario ==
  InScenario =>
    /\ signals # <<>> =>
         signals = <<HOLD_SIGNAL, BUY_SIGNAL, SELL_SIGNAL, BUY_SIGNAL, SELL_SIGNAL>>
    /\ (pc = "exec" /\ i = 2) =>
         (trades = <<BuyTrade(1, 102, 9, 82, 9)>> /\ cash = 82 /\ shares = 9)
    /\ pc \in {"perf", "done"} =>
         /\ Len(trades) = 4
         /\ [k \in 1..4 |-> trades[k].Action] = <<"BUY", "SELL", "BUY", "SELL">>
         /\ [k \in 1..4 |-> trades[k].Date] = <<1, 2, 3, 4>>
         /\ trades[1].Shares = 9
         /\ trades[1].Cash = 82
         /\ shares = 0

\* the scenario has run to its end
C10_Witness == InScenario /\ pc = "done" /\ Len(results) = NumRuns

\* C11: the maximum drawdown is never positive, is exactly 0 whenever the
\* reconstructed portfolio-value series is non-decreasing, and is strictly
\* negative exactly when some value lies below an earlier value.
C11_MaxDrawdownSign ==
  \A r \in DOMAIN results :
    LET m  == results[r].metrics
        pv == m.portfolio_values
        dips == \E j, k \in DOMAIN pv : j < k /\ pv[k] < pv[j]
    IN  /\ ~RPos(m.max_drawdown)
        /\ (\A k \in 1..(Len(pv) - 1) : pv[k] <= pv[k + 1])
             => m.max_drawdown = Zero
        /\ RNeg(m.max_drawdown) <=> dips

\* metrics of a run whose value series rose without ever falling
C11_Witness ==
  /\ results # <<>>
  /\ LET m  == results[1].metrics
         pv == m.portfolio_values
     IN  /\ Len(pv) >= 3
         /\ \A k \in 1..(Len(pv) - 1) : pv[k] <= pv[k + 1]
         /\ pv[Len(pv)] > pv[1]
         /\ m.max_drawdown = Zero

\* C12: the Sharpe ratio is exactly 0 whenever the daily-returns series is
\* empty, has a single element, or has zero standard deviation (all returns
\* equal, e.g. the same portfolio value on every bar).
C12_SharpeZeroCases ==
  \A r \in DOMAIN results :
    LET m  == results[r].metrics
        pv == m.portfolio_values
        n  == IF pv = <<>> THEN 0 ELSE Len(pv) - 1
        equalReturns ==
          \A j, k \in 1..n : pv[j + 1] * pv[k] = pv[k + 1] * pv[j]
    IN  (n = 0 \/ n = 1 \/ equalReturns) => m.sharpe_ratio = SharpeZero

\* metrics of a run with a trade whose returns are all equal and not zero
C12_Witness ==
  /\ results # <<>>
  /\ results[1].trades # <<>>
  /\ LET pv == results[1].metrics.portfolio_values
     IN  /\ Len(pv) >= 3
         /\ pv[2] > pv[1]
         /\ \A j, k \in 1..(Len(pv) - 1) : pv[j + 1] * pv[k] = pv[k + 1] * pv[j]
  /\ results[1].metrics.sharpe_ratio = SharpeZero

(* -------------------- properties of the strategies --------------------- *)
Generated == pc = "start"
SumOver(c, from, to) == RSum([j \in 1..(to - from + 1) |-> RInt(c[from + j - 1])])[1]

\* C13: for each of the three strategies and every bar sequence, the empty
\* one and ones shorter than the indicator windows included, generate_signals
\* returns exactly one signal in {Buy, Sell, Hold} per bar.
C13_OneSignalPerBar ==
  Generated =>
    /\ Len(signals) = Len(closes)
    /\ DOMAIN signals = DOMAIN closes
    /\ \A k \in DOMAIN signals : signals[k] \in SignalValues

\* a window strategy has been applied to bars shorter than its window
C13_Witness ==
  /\ Generated
  /\ closes # <<>>
  /\ \/ strategy = "MACrossover" /\ Len(closes) < params.long_window
     \/ strategy = "RSI" /\ Len(closes) < params.period
  /\ Len(signals) = Len(closes)

\* C14: Momentum: signal[0] is Hold and for i >= 1 signal[i] is Buy iff
\* close[i] > close[i-1], Sell iff close[i] < close[i-1], Hold iff equal.
C14_Momentum ==
  (Generated /\ strategy = "Momentum") =>
    \A k \in DOMAIN closes :
      /\ k = 1 => signals[k] = HOLD_SIGNAL
      /\ k > 1 =>
           /\ signals[k] = BUY_SIGNAL  <=> closes[k] > closes[k - 1]
           /\ signals[k] = SELL_SIGNAL <=> closes[k] < closes[k - 1]
           /\ signals[k] = HOLD_SIGNAL <=> closes[k] = closes[k - 1]

\* Momentum has produced a Buy, a Sell and a Hold after the first bar
C14_Witness ==
  /\ Generated
  /\ strategy = "Momentum"
  /\ \E a, b, h \in 2..Len(closes) :
       /\ signals[a] = BUY_SIGNAL
       /\ signals[b] = SELL_SIGNAL
       /\ signals[h] = HOLD_SIGNAL

\* C17: moving-average crossover: Hold while i < max(short_window,
\* long_window) - 1; afterwards Buy iff the mean of the last short_window
\* closes is > the mean of the last long_window closes, Sell iff <, Hold
\* when the two means are equal.
C17_MACrossover ==
  (Generated /\ strategy = "MACrossover") =>
    LET sw == params.short_window
        lw == params.long_window
        mx == IF sw > lw THEN sw ELSE lw
    IN  \A k \in DOMAIN closes :
          IF k - 1 < mx - 1 THEN signals[k] = HOLD_SIGNAL
          ELSE LET shortSum == SumOver(closes, k - sw + 1, k)
                   longSum  == SumOver(closes, k - lw + 1, k)
               IN  /\ signals[k] = BUY_SIGNAL  <=> shortSum * lw > longSum * sw
                   /\ signals[k] = SELL_SIGNAL <=> shortSum * lw < longSum * sw
                   /\ signals[k] = HOLD_SIGNAL <=> shortSum * lw = longSum * sw

\* with different windows, a Buy, a Sell and a tie occurred after warm-up
\* and the bars before it differ in price
C17_Witness ==
  /\ Generated
  /\ strategy = "MACrossover"
  /\ params.short_window < params.long_window
  /\ Len(closes) >= 2
  /\ closes[1] # closes[2]
  /\ \E a, b, h \in params.long_window..Len(closes) :
       /\ signals[a] = BUY_SIGNAL
       /\ signals[b] = SELL_SIGNAL
       /\ signals[h] = HOLD_SIGNAL

\* C18: the RSI signal is Hold at every bar with fewer than `period`
\* day-over-day deltas up to and including it (indices 0 .. period-1); the
\* first bar that may carry a Buy or Sell is index `period`.
C18_RSIWarmup ==
  (Generated /\ strategy = "RSI") =>
    \A k \in DOMAIN closes :
      k - 1 <= params.period - 1 => signals[k] = HOLD_SIGNAL

\* the deltas of the `period` bars ending at row k (1-based, k > period)
WindowGain(c, period, k) ==
  RSum([j \in 1..period |->
          LET d == c[k - period + j] - c[k - period + j - 1]
          IN  RInt(IF d > 0 THEN d ELSE 0)])[1]
WindowLoss(c, period, k) ==
  RSum([j \in 1..period |->
          LET d == c[k - period + j] - c[k - period + j - 1]
          IN  RInt(IF d < 0 THEN 0 - d ELSE 0)])[1]

\* C19: on a bar past warm-up whose trailing window has avg_loss = 0 and
\* avg_gain > 0 the RSI is 100 and the signal is Sell iff overbought < 100,
\* never Buy; when avg_loss = 0 and avg_gain = 0 the RSI is undefined and
\* the signal is Hold.
C19_RSIZeroLoss ==
  (Generated /\ strategy = "RSI") =>
    \A k \in DOMAIN closes :
      (k - 1 >= params.period /\ WindowLoss(closes, params.period, k) = 0) =>
        IF WindowGain(closes, params.period, k) > 0
        THEN /\ RSIAt(closes, params.period, k) = RInt(100)
             /\ signals[k] = SELL_SIGNAL <=> params.overbought < 100
             /\ signals[k] # BUY_SIGNAL
        ELSE /\ RSIAt(closes, params.period, k) = NaN
             /\ signals[k] = HOLD_SIGNAL

\* past warm-up, one bar closed a window of gains only and was marked Sell,
\* another closed a flat window and was left Hold, with oversold > 0
C19_Witness ==
  /\ Generated
  /\ strategy = "RSI"
  /\ params.oversold > 0
  /\ \E a, b \in (params.period + 1)..Len(closes) :
       /\ WindowLoss(closes, params.period, a) = 0
       /\ WindowGain(closes, params.period, a) > 0
       /\ signals[a] = SELL_SIGNAL
       /\ WindowLoss(closes, params.period, b) = 0
       /\ WindowGain(closes, params.period, b) = 0
       /\ signals[b] = HOLD_SIGNAL

(* ---------------- properties of the metrics and the log ---------------- *)
\* the iteration whose metrics were stored last still owns the engine state
JustMeasured == pc \in {"new", "done"}
Measured == results[Len(results)].metrics

\* C15: for a run with trades over bars with distinct dates, the
\* portfolio-value series has one entry per bar of the full sequence, entry
\* i is (engine cash at the end of day i) + (engine shares at the end of
\* day i) * close[i], hence initial_capital on every bar before the first
\* trade, and the last entry is final_value (final_price = last close).
C15_EquityCurveReplay ==
  (JustMeasured /\ trades # <<>>) =>
    LET pv == Measured.portfolio_values
    IN  /\ Len(pv) = Len(closes)
        /\ \A k \in 1..Len(closes) :
             pv[k] = IF k <= warmup_period THEN initial_capital
                     ELSE history[k - warmup_period][1]
                            + history[k - warmup_period][2] * closes[k]
        /\ \A k \in 1..Len(closes) :
             k - 1 < trades[1].Date => pv[k] = initial_capital
        /\ pv[Len(pv)] = Measured.final_value

\* a run with a warm-up bar and two Buys in a row has been measured
C15_Witness ==
  /\ JustMeasured
  /\ warmup_period >= 1
  /\ Len(trades) >= 2
  /\ trades[1].Action = "BUY"
  /\ trades[2].Action = "BUY"
  /\ Len(Measured.portfolio_values) = Len(closes)

RECURSIVE SharesBought(_, _, _)
SharesBought(log, from, to) ==
  IF from > to THEN 0
  ELSE log[from].Shares + SharesBought(log, from + 1, to)

RECURSIVE CostOfBuys(_, _, _)
CostOfBuys(log, from, to) ==
  IF from > to THEN 0
  ELSE log[from].Shares * log[from].Price + CostOfBuys(log, from + 1, to)

SellRows(log) == {k \in DOMAIN log : log[k].Action = "SELL"}

\* the row after the previous Sell (or the first row)
OpenedAt(log, k) ==
  IF \E j \in SellRows(log) : j < k
  THEN 1 + CHOOSE j \in SellRows(log) :
             j < k /\ \A h \in SellRows(log) : h < k => h <= j
  ELSE 1

RoundTripWins(log, k) ==
  log[k].Price * SharesBought(log, OpenedAt(log, k), k - 1)
    > CostOfBuys(log, OpenedAt(log, k), k - 1)

RECURSIVE SumOfReturns(_, _)
SumOfReturns(log, k) ==
  IF k = 0 THEN Zero
  ELSE IF log[k].Action = "SELL"
  THEN RAdd(SumOfReturns(log, k - 1),
            LET sh == SharesBought(log, OpenedAt(log, k), k - 1)
                cost == CostOfBuys(log, OpenedAt(log, k), k - 1)
            IN  Frac(100 * (log[k].Price * sh - cost), cost))
  ELSE SumOfReturns(log, k - 1)

\* C16: every Sell closes exactly one round trip whose cost basis is the
\* share-weighted average price of the Buys since the previous Sell; it wins
\* iff the sell price is strictly above that average; win_rate = 100 *
\* winning / (number of Sells), or 0 without a Sell; Buys left open at the
\* end change neither win_rate nor avg_trade_return.
C16_WinRate ==
  \A r \in DOMAIN results :
    LET log == results[r].trades
        m == results[r].metrics
        sells == SellRows(log)
        wins == {k \in sells : RoundTripWins(log, k)}
        lastSell == IF sells = {} THEN 0
                    ELSE CHOOSE k \in sells : \A h \in sells : h <= k
        closed == TradeReturns(SubSeq(log, 1, lastSell), 0, 0)
    IN  /\ \A k \in sells :
             /\ \A j \in OpenedAt(log, k)..(k - 1) : log[j].Action = "BUY"
             /\ OpenedAt(log, k) <= k - 1
             /\ log[k].Shares = SharesBought(log, OpenedAt(log, k), k - 1)
        /\ Len(TradeReturns(log, 0, 0)) = Cardinality(sells)
        /\ m.win_rate = IF sells = {} THEN Zero
                        ELSE Frac(100 * Cardinality(wins), Cardinality(sells))
        /\ m.avg_trade_return =
             IF sells = {} THEN Zero
             ELSE RDiv(SumOfReturns(log, Len(log)), RInt(Cardinality(sells)))
        /\ m.win_rate = WinRate(WinningTrades(closed), LosingTrades(closed))
        /\ m.avg_trade_return = AvgTradeReturn(closed)

\* a winning round trip followed by a Buy that is still open at the end
C16_Witness ==
  /\ results # <<>>
  /\ LET log == results[1].trades
     IN  /\ Len(log) = 3
         /\ log[1].Action = "BUY"
         /\ log[2].Action = "SELL"
         /\ log[3].Action = "BUY"
         /\ log[2].Price > log[1].Price
  /\ results[1].metrics.win_rate = RInt(100)

\* C20: the 'Portfolio Value' recorded by every Buy and by every Sell equals
\* (cash before the trade) + (shares before the trade) * price, so a trade
\* never changes the portfolio value at the trade price.
C20_TradePreservesValue ==
  [][ pc = "exec" =>
        LET price == closes[i + 1]
        IN  /\ cash' + shares' * price = cash + shares * price
            /\ Len(trades') > Len(trades) =>
                 LET t == trades'[Len(trades')]
                 IN  /\ t.Price = price
                     /\ t.PortfolioValue = cash + shares * price ]_vars

\* a Buy and then a Sell were logged, the value having moved in between
C20_Witness ==
  /\ Len(trades) >= 2
  /\ trades[1].Action = "BUY"
  /\ LastTrade.Action = "SELL"
  /\ LastTrade.PortfolioValue # trades[1].PortfolioValue

\* proceeds of the Sell in row k minus the cost accumulated by the
\* reconstruction when it reaches that row
RoundTripProfit(log, k) ==
  log[k].Shares * log[k].Price
    - OpenPosition(SubSeq(log, 1, k - 1), 0, 0).total_cost

\* sum of RoundTripProfit over the Sells among the first k rows
RECURSIVE RealisedProfit(_, _)
RealisedProfit(log, k) ==
  IF k = 0 THEN 0
  ELSE IF log[k].Action = "SELL"
  THEN RealisedProfit(log, k - 1) + RoundTripProfit(log, k)
  ELSE RealisedProfit(log, k - 1)

\* C21: at every point of a run, cash + (accumulated cost of the open Buys)
\* - initial_capital equals the realised profit of the closed round trips,
\* the accumulated cost of a round trip being the cost of the Buys since the
\* previous Sell and the reconstructed share count being the engine's; once
\* measured, profit_loss = cash + shares * final_price - initial_capital
\* equals the realised profit plus (shares held * final_price - accumulated
\* cost of the open Buys).
C21_AccountingIdentity ==
  LET open == OpenPosition(trades, 0, 0)
      realised == RealisedProfit(trades, Len(trades))
      final_price == closes[Len(closes)]
  IN  /\ cash + open.total_cost - initial_capital = realised
      /\ open.total_shares = shares
      /\ \A k \in SellRows(trades) :
           OpenPosition(SubSeq(trades, 1, k - 1), 0, 0).total_cost
             = CostOfBuys(trades, OpenedAt(trades, k), k - 1)
      /\ JustMeasured =>
           /\ Measured.profit_loss
                = cash + shares * final_price - initial_capital
           /\ Measured.profit_loss
                = realised + (shares * final_price - open.total_cost)

\* a measured run that closed a round trip at a profit and then bought
\* again, the position being still open at the end
C21_Witness ==
  /\ JustMeasured
  /\ Len(trades) = 3
  /\ trades[1].Action = "BUY"
  /\ trades[2].Action = "SELL"
  /\ trades[3].Action = "BUY"
  /\ shares > 0
  /\ RealisedProfit(trades, Len(trades)) > 0
  /\ Measured.profit_loss = RealisedProfit(trades, Len(trades))

====
